---- MODULE Spec2Model ----
(***************************************************************************)
(* Model of federation/executor.go: the path follower (pathFollower,       *)
(* extractTargets) and the distributed executor (Executor.execute,         *)
(* Executor.Execute) with its errgroup of child goroutines and its merge   *)
(* mutex.                                                                  *)
(***************************************************************************)
EXTENDS Integers, Sequences, FiniteSets, TLC

\* ---------------------------------------------------------------- bounds
MaxLen == 2        \* longest result list drawn as an input
MaxPath == 2       \* longest path drawn as an input
MaxNodes == 4      \* largest plan tree drawn as an input

\* ------------------------------------------------- result tree values
\* A decoded JSON value (Go interface{}): a tagged record.  An object's v is
\* a function from its field names to values, a list's v is a sequence.
Null == [t |-> "null", v |-> ""]
Str(s) == [t |-> "str", v |-> s]
Num(n) == [t |-> "num", v |-> n]
ListV(s) == [t |-> "list", v |-> s]
Obj(f) == [t |-> "obj", v |-> f]
EmptyMap == [n \in {} |-> Null]
IsList(node) == node.t = "list"
IsObj(node) == node.t = "obj"
Has(node, name) == name \in DOMAIN node.v

\* A value's identity (a Go map is a reference): the accessors that lead to
\* it from the root of the tree being walked.
Idx(i) == [k |-> "idx", i |-> i, f |-> ""]
Fld(f) == [k |-> "fld", i |-> 0, f |-> f]

\* errors: the chain of message prefixes, outermost first; nil is <<>>
NilErr == <<>>

KindField == "field"
KindType == "type"
FieldStep(name) == [Kind |-> KindField, Name |-> name]
TypeStep(name) == [Kind |-> KindType, Name |-> name]

\* ------------------------------------------------------- pathFollower
pathFollower == [targets |-> <<>>, keys |-> <<>>]
Ret(pf, err) == [pf |-> pf, err |-> err]

RECURSIVE extractTargets(_, _, _, _)
RECURSIVE extractSlice(_, _, _, _, _)
RECURSIVE extractSliceReversed(_, _, _, _, _)
RECURSIVE extractSliceContinue(_, _, _, _, _)

\* lines 99-106 with the elements visited last to first
extractSliceReversed(pf, slice, i, path, addr) ==
    IF i > Len(slice) THEN Ret(pf, NilErr)
    ELSE LET j == Len(slice) + 1 - i
             r == extractTargets(pf, slice[j], path, Append(addr, Idx(j)))
         IN IF r.err # NilErr
               THEN Ret(r.pf, <<"idx " \o ToString(j - 1)>> \o r.err)
               ELSE extractSliceReversed(r.pf, slice, i + 1, path, addr)

\* lines 99-106 with the loop carried on past an element that fails
extractSliceContinue(pf, slice, i, path, addr) ==
    IF i > Len(slice) THEN Ret(pf, NilErr)
    ELSE LET r == extractTargets(pf, slice[i], path, Append(addr, Idx(i)))
             rest == extractSliceContinue(r.pf, slice, i + 1, path, addr)
         IN IF r.err # NilErr
               THEN Ret(rest.pf, <<"idx " \o ToString(i - 1)>> \o r.err)
               ELSE rest

\* lines 99-106: the remaining path is applied to every element in order; the
\* first element that fails ends the loop with its index as a prefix.
extractSlice(pf, slice, i, path, addr) ==
    IF i > Len(slice) THEN Ret(pf, NilErr)
    ELSE LET r == extractTargets(pf, slice[i], path, Append(addr, Idx(i)))
         IN IF r.err # NilErr
               THEN Ret(r.pf, <<"idx " \o ToString(i - 1)>> \o r.err)
               ELSE extractSlice(r.pf, slice, i + 1, path, addr)

\* lines 108-120 without the check of the __federation field
pathExhaustedUnchecked(pf, node, addr) ==
    IF ~IsObj(node) THEN Ret(pf, <<"not an object">>)
    ELSE Ret([targets |-> Append(pf.targets, addr),
              keys |-> Append(pf.keys,
                          IF Has(node, "__federation")
                             THEN node.v["__federation"] ELSE Null)],
             NilErr)

\* lines 108-120 with the target appended before the __federation check
pathExhaustedEarlyAppend(pf, node, addr) ==
    IF ~IsObj(node) THEN Ret(pf, <<"not an object">>)
    ELSE IF ~Has(node, "__federation")
       THEN Ret([targets |-> Append(pf.targets, addr), keys |-> pf.keys],
                <<"missing __federation">>)
    ELSE Ret([targets |-> Append(pf.targets, addr),
              keys |-> Append(pf.keys, node.v["__federation"])],
             NilErr)

\* lines 108-120: at the end of the path the node must be an object that
\* carries __federation; the object is the target and the field's value its key.
pathExhausted(pf, node, addr) ==
    IF ~IsObj(node) THEN Ret(pf, <<"not an object">>)
    ELSE IF ~Has(node, "__federation") THEN Ret(pf, <<"missing __federation">>)
    ELSE Ret([targets |-> Append(pf.targets, addr),
              keys |-> Append(pf.keys, node.v["__federation"])],
             NilErr)

\* lines 129-137: descent into field step.Name
fieldStep(pf, obj, step, rest, addr) ==
    IF ~Has(obj, step.Name) THEN Ret(pf, <<"does not have key " \o step.Name>>)
    ELSE LET r == extractTargets(pf, obj.v[step.Name], rest,
                                 Append(addr, Fld(step.Name)))
         IN IF r.err # NilErr THEN Ret(r.pf, <<"elem">> \o r.err)
                              ELSE Ret(r.pf, NilErr)

\* lines 139-149 with a type that differs reported as an error
typeStepStrict(pf, obj, step, rest, addr) ==
    IF ~(Has(obj, "__typename") /\ obj.v["__typename"].t = "str")
       THEN Ret(pf, <<"does not have string key __typename">>)
    ELSE IF obj.v["__typename"].v = step.Name
       THEN LET r == extractTargets(pf, obj, rest, addr)
            IN IF r.err # NilErr
                  THEN Ret(r.pf, <<"typ " \o obj.v["__typename"].v>> \o r.err)
                  ELSE Ret(r.pf, NilErr)
    ELSE Ret(pf, <<"typ " \o obj.v["__typename"].v>>)

\* lines 139-149: restriction to the objects whose __typename is step.Name
typeStep(pf, obj, step, rest, addr) ==
    IF ~(Has(obj, "__typename") /\ obj.v["__typename"].t = "str")
       THEN Ret(pf, <<"does not have string key __typename">>)
    ELSE IF obj.v["__typename"].v = step.Name
       THEN LET r == extractTargets(pf, obj, rest, addr)
            IN IF r.err # NilErr
                  THEN Ret(r.pf, <<"typ " \o obj.v["__typename"].v>> \o r.err)
                  ELSE Ret(r.pf, NilErr)
    ELSE Ret(pf, NilErr)

\* lines 98-153
extractTargets(pf, node, path, addr) ==
    IF IsList(node) THEN extractSlice(pf, node.v, 1, path, addr)
    ELSE IF Len(path) = 0 THEN pathExhausted(pf, node, addr)
    ELSE IF ~IsObj(node) THEN Ret(pf, NilErr)
    ELSE IF Head(path).Kind = KindField
            THEN fieldStep(pf, node, Head(path), Tail(path), addr)
    ELSE IF Head(path).Kind = KindType
            THEN typeStep(pf, node, Head(path), Tail(path), addr)
    ELSE Ret(pf, NilErr)

\* the value found at an address of a tree
RECURSIVE At(_, _)
At(node, addr) ==
    IF Len(addr) = 0 THEN node
    ELSE IF Head(addr).k = "idx" THEN At(node.v[Head(addr).i], Tail(addr))
    ELSE At(node.v[Head(addr).f], Tail(addr))

\* the tree with the object at an address replaced
RECURSIVE SetAt(_, _, _)
SetAt(node, addr, obj) ==
    IF Len(addr) = 0 THEN obj
    ELSE IF Head(addr).k = "idx"
       THEN ListV([node.v EXCEPT ![Head(addr).i] = SetAt(@, Tail(addr), obj)])
    ELSE Obj([node.v EXCEPT ![Head(addr).f] = SetAt(@, Tail(addr), obj)])

\* ------------------------------------------------------------- plans
gatewayCoordinatorServiceName == "gateway-coordinator-service"
Services == {gatewayCoordinatorServiceName, "users", "orders"}

\* what a backend's execute capability answers, decoded
Response(service) ==
    IF service = "users" THEN <<Obj([name |-> Str("n")])>>
    ELSE IF service = "orders" THEN <<Obj([id |-> Str("i")])>>
    ELSE <<>>

\* A plan tree of n nodes, node 1 the root: parent[c] < c is the plan whose
\* After holds c (in increasing order of c), service[c] is Plan.Service and
\* path[c] is Plan.Path.
Parents(n) == {p \in [2..n -> 1..n] : \A c \in 2..n : p[c] < c}
ChildPaths == {<<>>, <<FieldStep("orders")>>}
Plans ==
    UNION {{[n |-> n, parent |-> p, service |-> s, path |-> q] :
               p \in Parents(n), s \in [1..n -> Services], q \in ChildPaths} :
           n \in 1..MaxNodes}
NoPlan == [n |-> 0, parent |-> <<>>, service |-> <<>>, path |-> <<>>]

VARIABLES
    plan,       \* the Plan planRoot returned
    planErr,    \* whether planRoot failed
    top,        \* Execute: its position and what it returned
    pc,         \* execute of each plan node: its position
    keysArg,    \* execute of each plan node: its keys argument
    res,        \* execute of each plan node: its local res
    ret,        \* execute of each plan node: the error it returned
    task,       \* the goroutine g.Go started for each child plan
    pfTargets,  \* that goroutine's pf.targets
    pfKeys,     \* that goroutine's pf.keys
    gErr,       \* each node's errgroup: the first error
    cancelled,  \* each node's errgroup context: cancelled or not
    resMu,      \* each node's merge mutex: the child whose goroutine holds it
    calls,      \* ExecutorClient.Execute invocations made for each node
    failures,   \* the errors of each node's goroutines, in order of occurrence
    panicked,   \* the process died of a run-time panic
    node,       \* extractTargets: the tree walked
    path,       \* extractTargets: the path followed
    out,        \* extractTargets: the pathFollower and the error afterwards
    pfPc,       \* extractTargets: called or not
    childResults, \* the results a child execute returned for out's targets
    merged      \* the tree and the error after the merge loop

execVars == <<plan, planErr, top, pc, keysArg, res, ret, task, pfTargets,
              pfKeys, gErr, cancelled, resMu, calls, failures, panicked>>
pfVars == <<node, path, out, pfPc, childResults, merged>>
vars == <<plan, planErr, top, pc, keysArg, res, ret, task, pfTargets,
          pfKeys, gErr, cancelled, resMu, calls, failures, panicked,
          node, path, out, pfPc, childResults, merged>>

Nodes == 1..plan.n
After(n) == {c \in Nodes : c > 1 /\ plan.parent[c] = n}
Parent(c) == plan.parent[c]
\* the results slice an execute that has returned handed to its caller
Results(n) == IF ret[n] = NilErr THEN res[n] ELSE <<>>

PFIdle ==
    /\ node = Null
    /\ path = <<>>
    /\ out = Ret(pathFollower, NilErr)
    /\ pfPc = "off"
    /\ childResults = <<>>
    /\ merged = [tree |-> Null, err |-> NilErr]

ExecIdle(p, e) ==
    /\ plan = p
    /\ planErr = e
    /\ top = [pc |-> "init", res |-> Null, err |-> NilErr]
    /\ pc = [n \in 1..p.n |-> "idle"]
    /\ keysArg = [n \in 1..p.n |-> <<>>]
    /\ res = [n \in 1..p.n |-> <<>>]
    /\ ret = [n \in 1..p.n |-> NilErr]
    /\ task = [n \in 1..p.n |-> "none"]
    /\ pfTargets = [n \in 1..p.n |-> <<>>]
    /\ pfKeys = [n \in 1..p.n |-> <<>>]
    /\ gErr = [n \in 1..p.n |-> NilErr]
    /\ cancelled = [n \in 1..p.n |-> FALSE]
    /\ resMu = [n \in 1..p.n |-> 0]
    /\ calls = [n \in 1..p.n |-> 0]
    /\ failures = [n \in 1..p.n |-> <<>>]
    /\ panicked = FALSE

Init ==
    /\ \/ \E p \in Plans : ExecIdle(p, FALSE)
       \/ ExecIdle(NoPlan, TRUE)
    /\ PFIdle

\* ------------------------------------------------------------ Execute
\* lines 209-216: plan the query and call execute(ctx, p, nil)
ExecuteCall ==
    /\ ~panicked
    /\ top.pc = "init"
    /\ IF planErr
          THEN /\ top' = [pc |-> "done", res |-> Null, err |-> <<"plan">>]
               /\ UNCHANGED <<pc, keysArg>>
          ELSE /\ top' = [top EXCEPT !.pc = "running"]
               /\ pc' = [pc EXCEPT ![1] = "enter"]
               /\ keysArg' = [keysArg EXCEPT ![1] = <<>>]
    /\ UNCHANGED <<plan, planErr, res, ret, task, pfTargets, pfKeys, gErr,
                   cancelled, resMu, calls, failures, panicked>>
    /\ UNCHANGED pfVars

\* lines 217-222: the error is passed on, otherwise r[0] is the answer
ExecuteReturn ==
    /\ ~panicked
    /\ top.pc = "running"
    /\ pc[1] = "returned"
    /\ IF ret[1] # NilErr
          THEN /\ top' = [pc |-> "done", res |-> Null, err |-> ret[1]]
               /\ UNCHANGED panicked
          ELSE IF Len(Results(1)) = 0
          THEN /\ panicked' = TRUE
               /\ UNCHANGED top
          ELSE /\ top' = [pc |-> "done", res |-> Results(1)[1], err |-> NilErr]
               /\ UNCHANGED panicked
    /\ UNCHANGED <<plan, planErr, pc, keysArg, res, ret, task, pfTargets,
                   pfKeys, gErr, cancelled, resMu, calls, failures>>
    /\ UNCHANGED pfVars

\* ------------------------------------------------------------ execute
\* lines 156-162 with the coordinator's object already holding a field
ownResultTainted(service) ==
    IF service = gatewayCoordinatorServiceName
       THEN <<Obj([stale |-> Str("s")])>>
       ELSE <<>>

\* lines 156-162: res is nil unless the plan targets the coordinator, whose
\* result is one empty object
ownResult(service) ==
    IF service = gatewayCoordinatorServiceName THEN <<Obj(EmptyMap)>> ELSE <<>>

\* errgroup.Group with the latest error kept in place of the first
errOnceLast(old, err) == err

\* errgroup.Group (g.Go, line 176): errOnce keeps the first error
errOnce(old, err) == IF old = NilErr THEN err ELSE old

\* lines 194-196 with the target replaced by the result
mergeFieldsReplace(target, result) == result

\* lines 194-196: every field of result is written into target
mergeFields(target, result) ==
    Obj([k \in DOMAIN target.v \cup DOMAIN result.v |->
            IF k \in DOMAIN result.v THEN result.v[k] ELSE target.v[k]])

\* lines 189-197: the loop over pf.targets from index i on; it stops at the
\* first result that is not an object
RECURSIVE mergeLoop(_, _, _, _)
mergeLoop(tree, targets, results, i) ==
    IF i > Len(targets) THEN [tree |-> tree, err |-> NilErr]
    ELSE IF ~IsObj(results[i])
       THEN [tree |-> tree, err |-> <<"result is not an object">>]
    ELSE mergeLoop(SetAt(tree, targets[i],
                         mergeFields(At(tree, targets[i]), results[i])),
                   targets, results, i + 1)

\* errgroup.Group with no cancellation when a goroutine fails
cancelOnErrNever(was) == was

\* errgroup.WithContext (line 164): the first error cancels the group's ctx
cancelOnErr(was) == TRUE

\* line 182 with only a surplus of results refused
countMismatchSurplus(results, targets) == Len(results) > Len(targets)

\* line 182: len(results) != len(pf.targets)
countMismatch(results, targets) == Len(results) # Len(targets)

\* line 186 with the mutex never contended
canLockAlways(holder) == TRUE

\* line 186: resMu.Lock() goes through only while no goroutine holds resMu
canLock(holder) == holder = 0

\* a goroutine of n's errgroup returns err: the first error is kept and the
\* group's context is cancelled
GoFailed(n, err) ==
    /\ gErr' = [gErr EXCEPT ![n] = errOnce(@, err)]
    /\ cancelled' = [cancelled EXCEPT ![n] = cancelOnErr(@)]
    /\ failures' = [failures EXCEPT ![n] = Append(@, err)]

\* lines 155-201: the node's own result, the errgroup, and one goroutine per
\* child plan with pf.keys = nil and pf.targets = {res[0]}; res[0] of an
\* empty res is an index out of range
executeStart(n) ==
    /\ ~panicked
    /\ pc[n] = "enter"
    /\ res' = [res EXCEPT ![n] = ownResult(plan.service[n])]
    /\ IF After(n) # {} /\ Len(res'[n]) = 0
          THEN /\ panicked' = TRUE
               /\ UNCHANGED <<pc, task, pfTargets, pfKeys>>
          ELSE /\ pc' = [pc EXCEPT ![n] = "wait"]
               /\ task' = [c \in Nodes |->
                              IF c \in After(n) THEN "spawned" ELSE task[c]]
               /\ pfTargets' = [c \in Nodes |->
                              IF c \in After(n) THEN <<(<<Idx(1)>>)>>
                                                ELSE pfTargets[c]]
               /\ pfKeys' = [c \in Nodes |->
                              IF c \in After(n) THEN <<>> ELSE pfKeys[c]]
               /\ UNCHANGED panicked
    /\ UNCHANGED <<plan, planErr, top, keysArg, ret, gErr, cancelled, resMu,
                   calls, failures>>
    /\ UNCHANGED pfVars

\* line 177: the goroutine of child c calls e.execute(ctx, subPlan, pf.keys)
taskCall(c) ==
    /\ ~panicked
    /\ task[c] = "spawned"
    /\ task' = [task EXCEPT ![c] = "called"]
    /\ pc' = [pc EXCEPT ![c] = "enter"]
    /\ keysArg' = [keysArg EXCEPT ![c] = pfKeys[c]]
    /\ UNCHANGED <<plan, planErr, top, res, ret, pfTargets, pfKeys, gErr,
                   cancelled, resMu, calls, failures, panicked>>
    /\ UNCHANGED pfVars

\* line 203 with g.Wait over as soon as one goroutine has returned
waitOverAny(n) ==
    After(n) = {} \/ \E c \in After(n) : task[c] \in {"done", "failed"}

\* line 203 with g.Wait over at the first error
waitOverOnError(n) ==
    \/ \A c \in After(n) : task[c] \in {"done", "failed"}
    \/ gErr[n] # NilErr

\* line 203: g.Wait blocks until every goroutine of the group has returned
waitOver(n) == \A c \in After(n) : task[c] \in {"done", "failed"}

\* lines 203-206: g.Wait returns once every goroutine of the group has
\* returned, cancels the group's context and yields the first error
executeWait(n) ==
    /\ ~panicked
    /\ pc[n] = "wait"
    /\ waitOver(n)
    /\ pc' = [pc EXCEPT ![n] = "returned"]
    /\ ret' = [ret EXCEPT ![n] = gErr[n]]
    /\ cancelled' = [cancelled EXCEPT ![n] = TRUE]
    /\ UNCHANGED <<plan, planErr, top, keysArg, res, task, pfTargets, pfKeys,
                   gErr, resMu, calls, failures, panicked>>
    /\ UNCHANGED pfVars

\* lines 178-186: the child's execute has returned; its error or a count of
\* results that differs from the count of targets ends the goroutine,
\* otherwise it takes resMu
taskCheck(c) ==
    /\ ~panicked
    /\ task[c] = "called"
    /\ pc[c] = "returned"
    /\ IF ret[c] # NilErr
          THEN /\ GoFailed(Parent(c), <<"executing sub plan">> \o ret[c])
               /\ task' = [task EXCEPT ![c] = "failed"]
               /\ UNCHANGED resMu
          ELSE IF countMismatch(Results(c), pfTargets[c])
          THEN /\ GoFailed(Parent(c),
                     <<"got " \o ToString(Len(Results(c))) \o " results for "
                       \o ToString(Len(pfTargets[c])) \o " targets">>)
               /\ task' = [task EXCEPT ![c] = "failed"]
               /\ UNCHANGED resMu
          ELSE /\ canLock(resMu[Parent(c)])
               /\ resMu' = [resMu EXCEPT ![Parent(c)] = c]
               /\ task' = [task EXCEPT ![c] = "locked"]
               /\ UNCHANGED <<gErr, cancelled, failures>>
    /\ UNCHANGED <<plan, planErr, top, pc, keysArg, res, ret, pfTargets,
                   pfKeys, calls, panicked>>
    /\ UNCHANGED pfVars

\* lines 189-197: holding resMu, the goroutine writes the fields of each
\* result into the corresponding target
taskMerge(c) ==
    /\ ~panicked
    /\ task[c] = "locked"
    /\ LET m == mergeLoop(ListV(res[Parent(c)]), pfTargets[c], Results(c), 1)
       IN /\ res' = [res EXCEPT ![Parent(c)] = m.tree.v]
          /\ task' = [task EXCEPT ![c] =
                         IF m.err = NilErr THEN "merged" ELSE "mergeErr"]
    /\ UNCHANGED <<plan, planErr, top, pc, keysArg, ret, pfTargets, pfKeys,
                   gErr, cancelled, resMu, calls, failures, panicked>>
    /\ UNCHANGED pfVars

\* lines 187, 192, 199: the goroutine returns and the deferred Unlock runs
taskReturn(c) ==
    /\ ~panicked
    /\ task[c] \in {"merged", "mergeErr"}
    /\ resMu' = [resMu EXCEPT ![Parent(c)] = 0]
    /\ IF task[c] = "mergeErr"
          THEN /\ GoFailed(Parent(c), <<"result is not an object">>)
               /\ task' = [task EXCEPT ![c] = "failed"]
          ELSE /\ task' = [task EXCEPT ![c] = "done"]
               /\ UNCHANGED <<gErr, cancelled, failures>>
    /\ UNCHANGED <<plan, planErr, top, pc, keysArg, res, ret, pfTargets,
                   pfKeys, calls, panicked>>
    /\ UNCHANGED pfVars

Next ==
    \/ ExecuteCall
    \/ ExecuteReturn
    \/ \E n \in Nodes : executeStart(n)
    \/ \E n \in Nodes : executeWait(n)
    \/ \E c \in Nodes : taskCall(c)
    \/ \E c \in Nodes : taskCheck(c)
    \/ \E c \in Nodes : taskMerge(c)
    \/ \E c \in Nodes : taskReturn(c)

Spec == Init /\ [][Next]_vars

\* the Go scheduler leaves no runnable goroutine waiting forever
FairSpec == Init /\ [][Next]_vars /\ WF_vars(Next)

\* ------------------------------------- extractTargets on drawn inputs
SeqsUpTo(S, n) == UNION {[1..k -> S] : k \in 0..n}

K0 == Obj([__federation |-> Str("k0"), __typename |-> Str("T")])
K1 == Obj([__federation |-> Str("k1"), __typename |-> Str("U")])
NoFed == Obj([__typename |-> Str("T")])
NoType == Obj([__federation |-> Str("k1")])
NumType == Obj([__federation |-> Str("k0"), __typename |-> Num(1)])
Leaves == {K0, K1, NoFed, NoType, NumType, Obj(EmptyMap), Str("x"), Null}
Inner == {ListV(s) : s \in SeqsUpTo({K0, K1}, MaxLen)}
Lists == {ListV(s) : s \in SeqsUpTo({K0, K1, NoFed, Str("x")} \cup Inner, MaxLen)}
Holder(v) == Obj([a |-> v])
TypedHolder(v) ==
    Obj([__federation |-> Str("k0"), __typename |-> Str("T"), a |-> v])
Holders == {Holder(v) : v \in Leaves \cup Inner}
              \cup {TypedHolder(v) : v \in Leaves \cup Inner}
HolderLists ==
    {ListV(s) : s \in SeqsUpTo({Holder(K0), Holder(K1), Holder(Str("x")), K0},
                               MaxLen)}
Trees == Leaves \cup Lists \cup Holders \cup HolderLists
Steps == {FieldStep("a"), TypeStep("T")}
Paths == SeqsUpTo(Steps, MaxPath)

InitPF ==
    /\ ExecIdle(NoPlan, TRUE)
    /\ node \in Trees
    /\ path \in Paths
    /\ out = Ret(pathFollower, NilErr)
    /\ pfPc = "ready"
    /\ childResults = <<>>
    /\ merged = [tree |-> Null, err |-> NilErr]

\* var pf pathFollower; err := pf.extractTargets(node, path)
follow ==
    /\ pfPc = "ready"
    /\ out' = extractTargets(pathFollower, node, path, <<>>)
    /\ pfPc' = "done"
    /\ UNCHANGED <<node, path, childResults, merged>>
    /\ UNCHANGED execVars

\* what a child execute may hand back for one target
ResultElems ==
    {Obj([name |-> Str("n")]),
     Obj([__typename |-> Str("X"), name |-> Str("m")]),
     Str("x")}

\* lines 189-197 over the targets the walk collected: one result per target,
\* merged in target order
merge ==
    /\ pfPc = "done"
    /\ out.err = NilErr
    /\ out.pf.targets # <<>>
    /\ \E r1, r2 \in ResultElems :
          /\ childResults' = [i \in 1..Len(out.pf.targets) |->
                            IF i % 2 = 1 THEN r1 ELSE r2]
          /\ merged' = mergeLoop(node, out.pf.targets, childResults', 1)
    /\ pfPc' = "merged"
    /\ UNCHANGED <<node, path, out>>
    /\ UNCHANGED execVars

NextPF == follow \/ merge

SpecPF == InitPF /\ [][NextPF]_vars

\* ============================================================ claims
IsReal(n) == plan.service[n] # gatewayCoordinatorServiceName
Started(n) == pc[n] \in {"wait", "returned"}

\* C1: a plan without children that targets a real service: execute(plan, nil)
\* and Execute return exactly the decoded response of that service.
C1_RoundTrip ==
    (plan.n = 1 /\ IsReal(1)) =>
        /\ ~panicked
        /\ pc[1] = "returned" =>
              ret[1] = NilErr /\ Results(1) = Response(plan.service[1])
        /\ top.pc = "done" =>
              top.err = NilErr /\ top.res = Response(plan.service[1])[1]

\* C2: for every child plan the keys handed to the child's execute and the
\* targets its result is merged into are those the walk of the child's Path
\* over the node's own result extracts, in the same order.
C2_TargetsFromWalk ==
    \A c \in Nodes :
        task[c] # "none" =>
            LET w == extractTargets(pathFollower,
                                    ListV(ownResult(plan.service[Parent(c)])),
                                    plan.path, <<>>)
            IN /\ pfTargets[c] = w.pf.targets
               /\ pfKeys[c] = w.pf.keys
               /\ pc[c] # "idle" => keysArg[c] = w.pf.keys

C4_OneBackendCall ==
    \A n \in Nodes :
        (IsReal(n) /\ Started(n)) =>
            /\ calls[n] = 1
            /\ After(n) = {} => res[n] = Response(plan.service[n])

\* C5: a coordinator plan invokes no backend for its own node; its result is
\* one object, empty when it has no children and otherwise holding only
\* fields that a child's merged result carries.
C5_Coordinator ==
    \A n \in Nodes :
        ~IsReal(n) =>
            /\ calls[n] = 0
            /\ Started(n) =>
                  /\ Len(res[n]) = 1
                  /\ IsObj(res[n][1])
                  /\ \A k \in DOMAIN res[n][1].v :
                        \E c \in After(n) :
                            /\ task[c] \in {"merged", "done"}
                            /\ Has(Results(c)[1], k)
                            /\ res[n][1].v[k] = Results(c)[1].v[k]
            /\ (pc[n] = "returned" /\ After(n) = {}) =>
                  ret[n] = NilErr /\ Results(n) = <<Obj(EmptyMap)>>
            /\ (n = 1 /\ top.pc = "done" /\ top.err = NilErr) =>
                  top.res = res[1][1]

C5_Witness ==
    \E n \in Nodes :
        /\ ~IsReal(n)
        /\ Cardinality(After(n)) >= 2
        /\ pc[n] = "returned"
        /\ ret[n] = NilErr
        /\ top.pc = "done"

\* C6: when a goroutine of a node has failed, the node's execute returns the
\* error of the first failure and no result; a child whose execute erred or
\* whose result count differs never reaches the merge; Execute passes the
\* root's error on with no result.
C6_FirstError ==
    /\ \A n \in Nodes :
          (pc[n] = "returned" /\ failures[n] # <<>>) =>
              /\ ret[n] = failures[n][1]
              /\ ret[n] # NilErr
              /\ Results(n) = <<>>
    /\ \A n \in Nodes :
          (pc[n] = "returned" /\ failures[n] = <<>>) => ret[n] = NilErr
    /\ \A c \in Nodes :
          task[c] \in {"locked", "merged", "done"} =>
              ret[c] = NilErr /\ Len(Results(c)) = Len(pfTargets[c])
    /\ \A c \in Nodes :
          task[c] = "failed" => failures[Parent(c)] # <<>>
    /\ (top.pc = "done" /\ ~planErr /\ failures[1] # <<>>) =>
          top.err = failures[1][1] /\ top.res = Null

C6_Witness ==
    /\ top.pc = "done"
    /\ ~planErr
    /\ Len(failures[1]) >= 2
    /\ failures[1][1] # failures[1][2]
    /\ top.err = failures[1][1]
    /\ \E c \in After(1) : ret[c] # NilErr

\* the addresses of the objects of a list, nested lists flattened depth first
RECURSIVE FlatAddrs(_, _)
FlatAddrs(v, addr) ==
    IF ~IsList(v) THEN <<addr>>
    ELSE LET from[i \in 1..(Len(v.v) + 1)] ==
                 IF i > Len(v.v) THEN <<>>
                 ELSE FlatAddrs(v.v[i], Append(addr, Idx(i))) \o from[i + 1]
         IN from[1]
RECURSIVE AllKeyed(_)
AllKeyed(v) ==
    IF IsList(v) THEN \A i \in 1..Len(v.v) : AllKeyed(v.v[i])
    ELSE IsObj(v) /\ Has(v, "__federation")
IsFlat(v) == \A i \in 1..Len(v.v) : ~IsList(v.v[i])

\* C7: an empty path over a list of N objects that all carry the marker gives
\* N targets and N keys without error, target i the i-th element and key i its
\* marker; nested lists are flattened depth first.
C7_FanOut ==
    (pfPc = "done" /\ path = <<>> /\ IsList(node) /\ AllKeyed(node)) =>
        /\ out.err = NilErr
        /\ out.pf.targets = FlatAddrs(node, <<>>)
        /\ Len(out.pf.keys) = Len(out.pf.targets)
        /\ \A i \in 1..Len(out.pf.keys) :
              out.pf.keys[i] = At(node, out.pf.targets[i]).v["__federation"]
        /\ IsFlat(node) =>
              /\ Len(out.pf.targets) = Len(node.v)
              /\ \A i \in 1..Len(node.v) :
                    /\ out.pf.targets[i] = <<Idx(i)>>
                    /\ out.pf.keys[i] = node.v[i].v["__federation"]

C7_Witness ==
    /\ pfPc = "done"
    /\ path = <<>>
    /\ node = ListV(<<ListV(<<K0, K1>>), K0>>)
    /\ out.pf.keys = <<Str("k0"), Str("k1"), Str("k0")>>

\* C8: a type restriction T as next step against an object whose __typename
\* is a string other than T adds no target and no key and is no error,
\* whatever steps follow.
C8_TypeMismatch ==
    ( /\ pfPc = "done"
      /\ IsObj(node)
      /\ path # <<>>
      /\ Head(path).Kind = KindType
      /\ Has(node, "__typename")
      /\ node.v["__typename"].t = "str"
      /\ node.v["__typename"].v # Head(path).Name ) =>
        out = Ret(pathFollower, NilErr)

C8_Witness ==
    /\ pfPc = "done"
    /\ node = K1
    /\ path = <<TypeStep("T"), FieldStep("a")>>
    /\ out.err = NilErr
    /\ out.pf.targets = <<>>

\* C9: a field descent as next step against a node that is not a list and is
\* either not an object or an object without the field returns an error and
\* adds no target.
C9_FieldDescent ==
    ( /\ pfPc = "done"
      /\ ~IsList(node)
      /\ path # <<>>
      /\ Head(path).Kind = KindField
      /\ (~IsObj(node) \/ ~Has(node, Head(path).Name)) ) =>
        /\ out.err # NilErr
        /\ out.pf.targets = <<>>

\* C10: at the end of the path on a node that is not a list: an object with
\* __federation is appended as the one target with that field's value as its
\* key; anything else is an error and nothing is appended.
C10_Exhausted ==
    (pfPc = "done" /\ path = <<>> /\ ~IsList(node)) =>
        IF IsObj(node) /\ Has(node, "__federation")
           THEN /\ out.err = NilErr
                /\ out.pf.targets = <<(<<>>)>>
                /\ out.pf.keys = <<node.v["__federation"]>>
           ELSE /\ out.err # NilErr
                /\ out.pf = pathFollower

C10_Witness ==
    /\ pfPc = "done"
    /\ path = <<>>
    /\ node = NoFed
    /\ out.err = <<"missing __federation">>

\* what following the path over element i alone gives
Alone(i) == extractTargets(pathFollower, node.v[i], path, <<Idx(i)>>)
BadElems == {i \in 1..Len(node.v) : Alone(i).err # NilErr}
FirstBad == CHOOSE i \in BadElems : \A j \in BadElems : i <= j
RECURSIVE TargetsUpTo(_)
TargetsUpTo(i) == IF i = 0 THEN <<>> ELSE TargetsUpTo(i - 1) \o Alone(i).pf.targets

\* C11: over a list, the first element that fails ends the whole follow: the
\* error is that element's error under its index, and the targets and keys
\* collected are those of the elements up to it, none of a later element.
C11_ListAbort ==
    (pfPc = "done" /\ IsList(node) /\ BadElems # {}) =>
        /\ out.err = <<"idx " \o ToString(FirstBad - 1)>> \o Alone(FirstBad).err
        /\ out.pf.targets = TargetsUpTo(FirstBad)
        /\ Len(out.pf.keys) = Len(out.pf.targets)
        /\ \A i \in 1..Len(out.pf.targets) : Head(out.pf.targets[i]).i <= FirstBad

C11_Witness ==
    /\ pfPc = "done"
    /\ path = <<>>
    /\ node = ListV(<<NoFed, K0>>)
    /\ out.err = <<"idx 0", "missing __federation">>
    /\ out.pf.targets = <<>>

\* C12: after any extractTargets call, failed or not, targets and keys have
\* the same length and keys[i] is the __federation value of targets[i].
C12_Parallel ==
    pfPc = "done" =>
        /\ Len(out.pf.targets) = Len(out.pf.keys)
        /\ \A i \in 1..Len(out.pf.targets) :
              LET target == At(node, out.pf.targets[i])
              IN /\ IsObj(target)
                 /\ Has(target, "__federation")
                 /\ out.pf.keys[i] = target.v["__federation"]

C12_Witness ==
    /\ pfPc = "done"
    /\ path = <<>>
    /\ node = ListV(<<K1, NoFed>>)
    /\ out.err # NilErr
    /\ out.pf.keys = <<Str("k1")>>

Children == Nodes \ {1}
Holding(c) == task[c] \in {"locked", "merged", "mergeErr"}
\* the child's execute has returned a result of the right length
Mergeable(c) ==
    /\ pc[c] = "returned"
    /\ ret[c] = NilErr
    /\ Len(Results(c)) = Len(pfTargets[c])

\* C13: at most one goroutine of a node is in its merge at a time, a goroutine
\* merges only while it holds the node's resMu, and resMu is never held while
\* the holder's own child execute is still running.
C13_MergeExclusion ==
    /\ [](\A c \in Children : Holding(c) => resMu[Parent(c)] = c)
    /\ [](\A n \in Nodes :
            resMu[n] # 0 =>
                /\ resMu[n] \in After(n)
                /\ Holding(resMu[n])
                /\ pc[resMu[n]] = "returned")
    /\ [][\A c \in Children :
            (task[c] = "locked" /\ task'[c] # "locked") =>
                /\ resMu[Parent(c)] = c
                /\ resMu'[Parent(c)] = c
                /\ \A n \in Nodes : n # Parent(c) => res'[n] = res[n]]_vars
    /\ [][\A n \in Nodes :
            (pc[n] = "wait" /\ res'[n] # res[n]) => resMu[n] # 0]_vars

C13_Witness ==
    \E c1, c2 \in Children :
        /\ c1 # c2
        /\ Parent(c1) = Parent(c2)
        /\ task[c1] = "merged"
        /\ task[c2] = "called"
        /\ Mergeable(c2)

\* C14: no child plan begins executing before its parent's own fetch is done
\* and the child's path has been followed over the parent's result.
C14_DependencyOrder ==
    \A c \in Children :
        pc[c] # "idle" =>
            LET n == Parent(c)
                w == extractTargets(pathFollower, ListV(res[n]), plan.path, <<>>)
            IN /\ Started(n)
               /\ IsReal(n) => calls[n] = 1
               /\ w.err = NilErr
               /\ keysArg[c] = w.pf.keys

\* C15: when a node's execute has returned a result without error, every
\* child goroutine has finished with its merge applied and the lock free, and
\* from then on no goroutine of the node changes the returned tree.
C15_JoinBeforeReturn ==
    /\ [](\A n \in Nodes :
            (pc[n] = "returned" /\ ret[n] = NilErr) =>
                /\ resMu[n] = 0
                /\ \A c \in After(n) :
                      /\ task[c] = "done"
                      /\ \A k \in DOMAIN Results(c)[1].v :
                            /\ Has(res[n][1], k)
                            /\ res[n][1].v[k] = Results(c)[1].v[k])
    /\ [][\A n \in Nodes :
            pc[n] = "returned" =>
                /\ res'[n] = res[n]
                /\ \A c \in After(n) : task'[c] = task[c]]_vars

C15_Witness ==
    \E n \in Children :
        /\ After(n) # {}
        /\ pc[n] = "returned"
        /\ ret[n] = NilErr
        /\ task[n] = "done"

\* C16 as stated: once a child has failed the node's wait is over, it does
\* not wait for the siblings still in flight.
C16_NoWaitOnError ==
    \A n \in Nodes :
        (pc[n] = "wait" /\ failures[n] # <<>>) => ENABLED executeWait(n)

\* C16 amended: a node whose child has failed returns only after every
\* sibling goroutine has finished; it returns no result, so what the siblings
\* merged reaches no caller, and the goroutine that called it fails in turn.
C16_WaitThenDiscard ==
    /\ \A n \in Nodes :
          (pc[n] = "returned" /\ failures[n] # <<>>) =>
              /\ \A c \in After(n) : task[c] \in {"done", "failed"}
              /\ Results(n) = <<>>
              /\ (n # 1 /\ task[n] # "called") => task[n] = "failed"
    /\ \A n \in Nodes :
          (pc[n] = "wait" /\ \E c \in After(n) : task[c] \notin {"done", "failed"})
              => ret[n] = NilErr
    /\ (top.pc = "done" /\ top.err # NilErr) => top.res = Null

C16_Witness ==
    \E n \in Nodes : \E c1, c2 \in After(n) :
        /\ pc[n] = "returned"
        /\ task[c1] = "failed"
        /\ task[c2] = "done"
        /\ ret[n] # NilErr
        /\ top.pc = "done"

\* the groups whose context the execute of c derives from
RECURSIVE Ancestors(_)
Ancestors(c) == IF c = 1 THEN {} ELSE {Parent(c)} \cup Ancestors(Parent(c))
\* the ctx handed to the execute of c is cancelled
CtxCancelled(c) == \E a \in Ancestors(c) : cancelled[a]
InFlight(c) == pc[c] \in {"enter", "wait"}

\* C17: the context an in-flight child execute observes is cancelled exactly
\* when a goroutine has failed at its parent or at a node above it.
C17_Cancellation ==
    \A c \in Children :
        InFlight(c) =>
            (CtxCancelled(c) <=> \E a \in Ancestors(c) : failures[a] # <<>>)

C17_Witness ==
    \E c \in Children :
        /\ InFlight(c)
        /\ Parent(c) # 1
        /\ failures[Parent(c)] = <<>>
        /\ failures[1] # <<>>
        /\ CtxCancelled(c)

\* C19: a child execute that returns a number of results other than the
\* number of targets makes its goroutine fail without taking the lock or
\* writing any field, and the node's execute returns an error.
C19_CountMismatch ==
    \A c \in Children :
        ( /\ pc[c] = "returned"
          /\ ret[c] = NilErr
          /\ Len(Results(c)) # Len(pfTargets[c]) ) =>
            /\ task[c] \in {"called", "failed"}
            /\ task[c] = "failed" =>
                  \E i \in 1..Len(failures[Parent(c)]) :
                      failures[Parent(c)][i] =
                          <<"got " \o ToString(Len(Results(c))) \o " results for "
                            \o ToString(Len(pfTargets[c])) \o " targets">>
            /\ pc[Parent(c)] = "returned" =>
                  task[c] = "failed" /\ ret[Parent(c)] # NilErr

C19_Witness ==
    \E c \in Children :
        /\ pc[c] = "returned"
        /\ ret[c] = NilErr
        /\ Len(Results(c)) = 0
        /\ Len(pfTargets[c]) = 1
        /\ task[c] = "failed"
        /\ pc[Parent(c)] = "returned"
        /\ res[Parent(c)] = <<Obj(EmptyMap)>>

\* C20: for every plan tree the root's execute eventually returns, with a
\* result or an error.
C20_Termination == <>(planErr \/ pc[1] = "returned")

\* two trees are the same but for the objects at the collected targets
RECURSIVE SameExcept(_, _, _)
SameExcept(a, b, addr) ==
    IF \E i \in 1..Len(out.pf.targets) : out.pf.targets[i] = addr THEN TRUE
    ELSE IF a.t # b.t THEN FALSE
    ELSE IF IsList(a)
       THEN /\ Len(a.v) = Len(b.v)
            /\ \A i \in 1..Len(a.v) :
                  SameExcept(a.v[i], b.v[i], Append(addr, Idx(i)))
    ELSE IF IsObj(a)
       THEN /\ DOMAIN a.v = DOMAIN b.v
            /\ \A k \in DOMAIN a.v :
                  SameExcept(a.v[k], b.v[k], Append(addr, Fld(k)))
    ELSE a = b

\* C18: after a merge that completes, each target holds every field of its
\* result element with the result's value, keeps its other fields as they
\* were, and nothing else in the tree has changed.
C18_ShallowMerge ==
    (pfPc = "merged" /\ merged.err = NilErr) =>
        /\ \A i \in 1..Len(out.pf.targets) :
              LET old == At(node, out.pf.targets[i])
                  new == At(merged.tree, out.pf.targets[i])
              IN /\ IsObj(new)
                 /\ DOMAIN new.v = DOMAIN old.v \cup DOMAIN childResults[i].v
                 /\ \A k \in DOMAIN childResults[i].v : new.v[k] = childResults[i].v[k]
                 /\ \A k \in DOMAIN old.v \ DOMAIN childResults[i].v :
                       new.v[k] = old.v[k]
        /\ SameExcept(node, merged.tree, <<>>)

C18_Witness ==
    /\ pfPc = "merged"
    /\ node = ListV(<<K0, K1>>)
    /\ path = <<TypeStep("T")>>
    /\ childResults = <<Obj([__typename |-> Str("X"), name |-> Str("m")])>>
    /\ merged.err = NilErr
    /\ merged.tree =
          ListV(<<Obj([__federation |-> Str("k0"), __typename |-> Str("X"),
                       name |-> Str("m")]), K1>>)

====
